---- MODULE Spec2Model ----
(***************************************************************************)
(* The shape-creation handler of figma-mcp-server (CreationHandler) and    *)
(* the design API it drives.  The sources hold four revisions of the       *)
(* class; the variable `handler' says which one was constructed:           *)
(*   "image"   src/src/handlers/creation.ts:18-185                         *)
(*   "line"    src/src/handlers/creation.ts:189-324                        *)
(*   "polygon" src/src/handlers/creation.ts:350-528                        *)
(*   "full"    src/unnamed/part_005:42-256                                 *)
(* Numbers are integers; a product with a cosine or a sine is computed in  *)
(* thousandths and brought back to the integer grid.  A JavaScript value   *)
(* that may be undefined is a sequence of length at most one.  An error    *)
(* message is the sequence of the pieces it is concatenated from.          *)
(***************************************************************************)
EXTENDS Integers, Sequences, FiniteSets, TLC

VARIABLES handler, nodes, images, last, ncalls, calc, procs, registry,
          server, remote, watchedResources, timers, tasks, sent, nreq,
          endpoint, connections, transport

\* the handler and the document it drives; the geometry calculator's caller
handlerVars == <<handler, nodes, images, last, ncalls>>
calcVars == <<calc>>
\* calls under way at the same time, and the bytes behind each image handle
concVars == <<procs, registry>>
\* FigmaAPIServer: the revision running, the lastModified the design service
\* reports for each file, the watchedResources map, the interval timers set,
\* the request handlers and timer callbacks suspended at an await, the
\* notifications sent, the requests received
watchVars == <<server, remote, watchedResources, timers, tasks, sent, nreq>>
\* the /events endpoint: the revision running, the state of each SSE
\* connection, the connection whose transport the server holds
sseVars == <<endpoint, connections, transport>>
\* what the handler's own calls leave alone
aside == <<calcVars, concVars, watchVars, sseVars>>

vars == <<handlerVars, calcVars, concVars, watchVars, sseVars>>

----------------------------------------------------------------------------
(* Bounds *)

MaxCalls == 1
MaxPoints == 3
MaxSides == 3
MaxCalcSides == 5
MaxProcs == 2
MaxVersion == 1
MaxRequests == 2
MaxPolls == 2
MaxConnections == 3

----------------------------------------------------------------------------
(* JavaScript values *)

None == <<>>
Some(v) == <<v>>
Defined(o) == o # <<>>
Val(o) == o[1]
\* truthiness of an optional number: undefined and 0 are falsy
TruthyNum(o) == Defined(o) /\ Val(o) # 0
\* truthiness of an optional string: undefined and "" are falsy
TruthyStr(o) == Defined(o) /\ Val(o) # ""
\* a ?? b on an optional number, b a plain number (a || b gives the same
\* number: the two differ only where a is 0 and b is 0 too)
Coalesce(o, d) == IF Defined(o) THEN Val(o) ELSE d

Abs(a) == IF a < 0 THEN -a ELSE a
Min2(a, b) == IF a < b THEN a ELSE b
SetMin(S) == CHOOSE m \in S : \A e \in S : m <= e
SetMax(S) == CHOOSE m \in S : \A e \in S : m >= e

\* Math.sin and Math.cos of an angle in degrees, in thousandths
SinHalfTurn(d) == (4000 * d * (180 - d)) \div (40500 - d * (180 - d))
SinMilli(deg) ==
  LET d == deg % 360
  IN IF d <= 180 THEN SinHalfTurn(d) ELSE -SinHalfTurn(d - 180)
CosMilli(deg) == SinMilli(deg + 90)

----------------------------------------------------------------------------
(* The design API: node handles *)

DefaultSize == 100

NewNode(id, type, size) ==
  [id |-> id, type |-> type, x |-> 0, y |-> 0,
   width |-> size, height |-> size,
   fills |-> <<>>, strokes |-> <<>>, strokeWeight |-> None,
   characters |-> "", vectorPaths |-> <<>>,
   opacity |-> None, rotation |-> None, constraints |-> None,
   constraintsTop |-> None, constraintsLeft |-> None,
   constraintsBottom |-> None, constraintsRight |-> None,
   resizeCalls |-> <<>>]

createRectangle(id) == NewNode(id, "RECTANGLE", Some(DefaultSize))
createEllipse(id) == NewNode(id, "ELLIPSE", Some(DefaultSize))
createText(id) == NewNode(id, "TEXT", None)
createVector(id) == NewNode(id, "VECTOR", None)

\* node.resize(w, h): the handle takes the new size; the call is recorded
resize(n, w, h) ==
  [n EXCEPT !.width = Some(w), !.height = Some(h),
            !.resizeCalls = Append(@, <<w, h>>)]

\* figma.getNodeById(uri): the handle, or null (None)
getNodeById(store, uri) ==
  IF uri \in 1..Len(store) THEN Some(store[uri]) ELSE None

----------------------------------------------------------------------------
(* Requests *)

Revisions == {"image", "line", "polygon", "full"}

\* the cases of each revision's switch on the shape type
Cases(rev) ==
  CASE rev = "image" -> {"image"}
    [] rev = "line" -> {"rectangle", "ellipse", "text", "line"}
    [] rev = "polygon" -> {"rectangle", "ellipse", "text", "line", "polygon"}
    [] rev = "full" -> {"rectangle", "ellipse", "text", "line", "polygon", "image"}

EmptyProps ==
  [x |-> None, y |-> None, width |-> None, height |-> None,
   fill |-> None, stroke |-> None, strokeWeight |-> None,
   text |-> None, line |-> None, polygon |-> None, image |-> None,
   star |-> None, vector |-> None]

Pt(a, b) == [x |-> a, y |-> b]
Solid(r, g, b) == [type |-> "SOLID", color |-> [r |-> r, g |-> g, b |-> b]]

----------------------------------------------------------------------------
(* loadImage *)

DataSources == {"data:image/png;base64,QUJD", "data:image/png;base64"}
UrlSources == {"https://example.com/image.jpg"}
Sources == DataSources \cup UrlSources

\* source.startsWith('data:image')
StartsWithDataImage(source) == source \in DataSources
\* source.split(',')[1]
Base64Payload(source) ==
  IF source = "data:image/png;base64,QUJD" THEN Some("QUJD") ELSE None
\* atob: the bytes, or None where atob throws
Atob(payload) == IF payload = Some("QUJD") THEN Some(<<65, 66, 67>>) ELSE None

\* new Uint8Array(await response.arrayBuffer()): the body the server sends
BodyOf(source) == <<137, 80, 78, 71>>

\* what the network and the design API do during one call
Envs == [fail : {"none", "fetch", "body", "register"}]
EnvOk == [fail |-> "none"]

Loaded(bytes, f) == [ok |-> TRUE, bytes |-> bytes, err |-> <<>>, fetches |-> f]
LoadFailed(msg, f) == [ok |-> FALSE, bytes |-> <<>>, err |-> msg, fetches |-> f]

\* mutant: a rejected fetch is tried once more
loadImageRawRetry(source, env) ==
  IF StartsWithDataImage(source)
  THEN LET bytes == Atob(Base64Payload(source))
       IN IF Defined(bytes) THEN Loaded(Val(bytes), 0)
          ELSE LoadFailed(<<"The string to be decoded is not correctly encoded.">>, 0)
  ELSE IF env.fail = "fetch" THEN LoadFailed(<<"Network error">>, 2)
       ELSE IF env.fail = "body" THEN LoadFailed(<<"body stream error">>, 1)
       ELSE Loaded(BodyOf(source), 1)

\* creation.ts:4-16: no catch, the underlying error escapes as it is
loadImageRaw(source, env) ==
  IF StartsWithDataImage(source)
  THEN LET bytes == Atob(Base64Payload(source))
       IN IF Defined(bytes) THEN Loaded(Val(bytes), 0)
          ELSE LoadFailed(<<"The string to be decoded is not correctly encoded.">>, 0)
  ELSE IF env.fail = "fetch" THEN LoadFailed(<<"Network error">>, 1)
       ELSE IF env.fail = "body" THEN LoadFailed(<<"body stream error">>, 1)
       ELSE Loaded(BodyOf(source), 1)

\* part_005:3-18: the same body inside try/catch
loadImage(source, env) ==
  LET r == loadImageRaw(source, env)
  IN IF r.ok THEN r
     ELSE LoadFailed(<<"Failed to load image: ">> \o r.err, r.fetches)

loadImageOf(rev, source, env) ==
  IF rev = "full" THEN loadImage(source, env) ELSE loadImageRaw(source, env)

----------------------------------------------------------------------------
(* Geometry and paths *)

\* the arguments of the calculator; rotation: number = 0
PolygonArgs(centerX, centerY, radius, sides, rotation) ==
  [centerX |-> centerX, centerY |-> centerY, radius |-> radius, sides |-> sides,
   rotation |-> Coalesce(rotation, 0)]

\* the point pushed in round i: angle = i * angleStep + rotationInRadians
PolygonPointAt(a, i) ==
  LET angle == (i * 360) \div a.sides + a.rotation
  IN Pt(a.centerX + (a.radius * CosMilli(angle)) \div 1000,
        a.centerY + (a.radius * SinMilli(angle)) \div 1000)

\* for (let i = from; i < limit; i++) points.push(...)
RECURSIVE PushPolygonPoints(_, _, _, _)
PushPolygonPoints(a, i, limit, points) ==
  IF i < limit
  THEN PushPolygonPoints(a, i + 1, limit, Append(points, PolygonPointAt(a, i)))
  ELSE points

\* mutant: the loop runs while i <= sides
calculatePolygonPointsInclusive(centerX, centerY, radius, sides, rotation) ==
  PushPolygonPoints(PolygonArgs(centerX, centerY, radius, sides, rotation),
                    0, sides + 1, <<>>)

calculatePolygonPoints(centerX, centerY, radius, sides, rotation) ==
  PushPolygonPoints(PolygonArgs(centerX, centerY, radius, sides, rotation),
                    0, sides, <<>>)

Move(p) == [op |-> "M", x |-> p.x, y |-> p.y]
LineTo(p) == [op |-> "L", x |-> p.x, y |-> p.y]
Close == [op |-> "Z", x |-> 0, y |-> 0]

\* `M ${start.x} ${start.y} L ${end.x} ${end.y}`
LinePathData(start, end) == <<Move(start), LineTo(end)>>

\* mutant: the polygon path is left open
PolygonPathDataOpen(points) ==
  [i \in 1..Len(points) |-> IF i = 1 THEN Move(points[1]) ELSE LineTo(points[i])]

\* points.reduce(...) + ' Z'
PolygonPathData(points) ==
  [i \in 1..Len(points) |-> IF i = 1 THEN Move(points[1]) ELSE LineTo(points[i])]
    \o <<Close>>

VectorPath(data) == [windingRule |-> "NONZERO", data |-> data]

----------------------------------------------------------------------------
(* CreationHandler.create: the cases of the switch *)

\* what a case leaves behind: the error thrown (<<>> when none), the node
\* constructed (None when none was), the calls made on the way
Block(err, node, ctor, imgs, f, r, pts) ==
  [err |-> err, node |-> node, constructed |-> ctor, images |-> imgs,
   fetches |-> f, registrations |-> r, points |-> pts]

Thrown(msg) == Block(msg, None, <<>>, 0, 0, 0, None)

\* if (properties.width) node.resize(properties.width, node.height);
\* if (properties.height) node.resize(node.width, properties.height);
SizeByResize(n, p) ==
  LET n1 == IF TruthyNum(p.width) THEN resize(n, Val(p.width), Val(n.height)) ELSE n
  IN IF TruthyNum(p.height) THEN resize(n1, Val(n1.width), Val(p.height)) ELSE n1

rectangleCase(id, p) ==
  Block(<<>>, Some(SizeByResize(createRectangle(id), p)), <<"createRectangle">>, 0, 0, 0, None)

ellipseCase(id, p) ==
  Block(<<>>, Some(SizeByResize(createEllipse(id), p)), <<"createEllipse">>, 0, 0, 0, None)

textCase(id, p) ==
  LET n == createText(id)
  IN Block(<<>>,
           Some(IF TruthyStr(p.text) THEN [n EXCEPT !.characters = Val(p.text)] ELSE n),
           <<"createText">>, 0, 0, 0, None)

\* the stroke weight of the line block, as each revision has it
LineStrokeWeight(rev, n, line) ==
  CASE rev = "line" ->
         IF TruthyNum(line.strokeWeight)
         THEN [n EXCEPT !.strokeWeight = line.strokeWeight] ELSE n
    [] rev = "polygon" -> n
    [] OTHER ->
         IF Defined(line.strokeWeight)
         THEN [n EXCEPT !.strokeWeight = line.strokeWeight] ELSE n

lineCase(rev, id, p) ==
  IF ~Defined(p.line)
  THEN Thrown(<<"Line properties are required for line creation">>)
  ELSE LET line == Val(p.line)
           start == line.start
           end == line.end
           n0 == createVector(id)
           n1 == [n0 EXCEPT !.vectorPaths = <<VectorPath(LinePathData(start, end))>>,
                            !.x = Min2(start.x, end.x),
                            !.y = Min2(start.y, end.y)]
           n2 == resize(n1, Abs(end.x - start.x), Abs(end.y - start.y))
       IN Block(<<>>, Some(LineStrokeWeight(rev, n2, line)), <<"createVector">>,
                0, 0, 0, None)

\* the vertex list of a polygon request, None when neither form is given
PolygonPoints(polygon) ==
  IF Defined(polygon.points) THEN polygon.points
  ELSE IF TruthyNum(polygon.sides) /\ TruthyNum(polygon.radius)
       THEN Some(calculatePolygonPoints(Coalesce(polygon.centerX, 0),
                                        Coalesce(polygon.centerY, 0),
                                        Val(polygon.radius), Val(polygon.sides),
                                        polygon.rotation))
       ELSE None

Xs(points) == {points[i].x : i \in 1..Len(points)}
Ys(points) == {points[i].y : i \in 1..Len(points)}

\* mutant: the vector is constructed before the vertex list is validated
polygonCaseLateCheck(id, p) ==
  IF ~Defined(p.polygon) \/ ~Defined(PolygonPoints(Val(p.polygon)))
  THEN Block(<<"Either points or sides+radius must be provided for polygon creation">>,
             Some(createVector(id)), <<"createVector">>, 0, 0, 0, None)
  ELSE LET points == Val(PolygonPoints(Val(p.polygon)))
           n1 == [createVector(id) EXCEPT
                    !.vectorPaths = <<VectorPath(PolygonPathData(points))>>,
                    !.x = SetMin(Xs(points)), !.y = SetMin(Ys(points))]
       IN Block(<<>>, Some(resize(n1, SetMax(Xs(points)) - SetMin(Xs(points)),
                                  SetMax(Ys(points)) - SetMin(Ys(points)))),
                <<"createVector">>, 0, 0, 0, PolygonPoints(Val(p.polygon)))

\* mutant: the position is taken from the first vertex, not from the minimum
polygonCaseFirstVertex(id, p) ==
  IF ~Defined(p.polygon)
  THEN Thrown(<<"Polygon properties are required for polygon creation">>)
  ELSE IF ~Defined(PolygonPoints(Val(p.polygon)))
  THEN Thrown(<<"Either points or sides+radius must be provided for polygon creation">>)
  ELSE LET points == Val(PolygonPoints(Val(p.polygon)))
           n1 == [createVector(id) EXCEPT
                    !.vectorPaths = <<VectorPath(PolygonPathData(points))>>,
                    !.x = points[1].x, !.y = points[1].y]
       IN Block(<<>>, Some(resize(n1, SetMax(Xs(points)) - SetMin(Xs(points)),
                                  SetMax(Ys(points)) - SetMin(Ys(points)))),
                <<"createVector">>, 0, 0, 0, PolygonPoints(Val(p.polygon)))

polygonCase(id, p) ==
  IF ~Defined(p.polygon)
  THEN Thrown(<<"Polygon properties are required for polygon creation">>)
  ELSE LET pts == PolygonPoints(Val(p.polygon))
       IN IF ~Defined(pts)
          THEN Thrown(<<"Either points or sides+radius must be provided for polygon creation">>)
          ELSE LET points == Val(pts)
                   n0 == createVector(id)
                   n1 == [n0 EXCEPT !.vectorPaths = <<VectorPath(PolygonPathData(points))>>]
                   minX == SetMin(Xs(points))
                   maxX == SetMax(Xs(points))
                   minY == SetMin(Ys(points))
                   maxY == SetMax(Ys(points))
                   n2 == [n1 EXCEPT !.x = minX, !.y = minY]
               IN Block(<<>>, Some(resize(n2, maxX - minX, maxY - minY)),
                        <<"createVector">>, 0, 0, 0, pts)

\* scaleMode: properties.image.scaleMode || 'FILL'
ImagePaint(scaleMode, hash) ==
  [type |-> "IMAGE", scaleMode |-> scaleMode, imageHash |-> hash]

\* mutant: the crop block writes the four edges, supplied or not
ApplyCropEdgesAll(n, crop) ==
  [n EXCEPT !.constraintsTop = crop.top, !.constraintsLeft = crop.left,
            !.constraintsBottom = crop.bottom, !.constraintsRight = crop.right]

\* the four per-edge writes of the crop block
ApplyCropEdges(n, crop) ==
  [n EXCEPT
     !.constraintsTop = IF Defined(crop.top) THEN crop.top ELSE @,
     !.constraintsLeft = IF Defined(crop.left) THEN crop.left ELSE @,
     !.constraintsBottom = IF Defined(crop.bottom) THEN crop.bottom ELSE @,
     !.constraintsRight = IF Defined(crop.right) THEN crop.right ELSE @]

\* opacity and rotation of the image sub-bag
ApplyImageExtras(n, image) ==
  [n EXCEPT
     !.opacity = IF Defined(image.opacity) THEN image.opacity ELSE @,
     !.rotation = IF Defined(image.rotation) THEN image.rotation ELSE @]

\* mutant: the catch of every revision reports an update failure
ImageCatchPrefixUpdate(rev) == "Failed to update image: "

\* the prefix the catch of the image case puts before the caught message
ImageCatchPrefix(rev) ==
  IF rev = "image" THEN "Failed to load image: " ELSE "Failed to update image: "

\* creation.ts:56-82: the writes of the image case once the paint is built
CreateImageApplied(n0, image, paint) ==
  LET n1 == ApplyImageExtras([n0 EXCEPT !.fills = <<paint>>], image)
  IN IF image.scaleMode = Some("CROP") /\ Defined(image.cropSettings)
     THEN ApplyCropEdges(
            [n1 EXCEPT !.constraints =
               Some([vertical |-> "SCALE", horizontal |-> "SCALE"])],
            Val(image.cropSettings))
     ELSE n1

\* image.scaleMode || 'FILL'
CreateScaleMode(image) ==
  IF TruthyStr(image.scaleMode) THEN Val(image.scaleMode) ELSE "FILL"

imageCase(rev, id, imgs, p, env) ==
  IF ~Defined(p.image)
  THEN Thrown(<<"Image properties are required for image creation">>)
  ELSE LET image == Val(p.image)
           n0 == createRectangle(id)
           ctor == <<"createRectangle">>
           load == loadImageOf(rev, image.source, env)
       IN IF ~load.ok
          THEN Block(<<ImageCatchPrefix(rev)>> \o load.err, Some(n0), ctor,
                     0, load.fetches, 0, None)
          ELSE IF env.fail = "register"
          THEN Block(<<ImageCatchPrefix(rev), "createImage failed">>, Some(n0), ctor,
                     0, load.fetches, 1, None)
          ELSE LET paint == ImagePaint(CreateScaleMode(image), imgs + 1)
               IN Block(<<>>, Some(CreateImageApplied(n0, image, paint)), ctor,
                        1, load.fetches, 1, None)

\* mutant: a type without a case falls into the rectangle case
KindBlockDefaultRectangle(rev, id, imgs, type, p, env) ==
  IF type \notin Cases(rev) THEN rectangleCase(id, p)
  ELSE CASE type = "rectangle" -> rectangleCase(id, p)
         [] type = "ellipse" -> ellipseCase(id, p)
         [] type = "text" -> textCase(id, p)
         [] type = "line" -> lineCase(rev, id, p)
         [] type = "polygon" -> polygonCase(id, p)
         [] type = "image" -> imageCase(rev, id, imgs, p, env)

\* switch (type)
KindBlock(rev, id, imgs, type, p, env) ==
  IF type \notin Cases(rev) THEN Thrown(<<"Unsupported shape type: ", type>>)
  ELSE CASE type = "rectangle" -> rectangleCase(id, p)
         [] type = "ellipse" -> ellipseCase(id, p)
         [] type = "text" -> textCase(id, p)
         [] type = "line" -> lineCase(rev, id, p)
         [] type = "polygon" -> polygonCase(id, p)
         [] type = "image" -> imageCase(rev, id, imgs, p, env)

----------------------------------------------------------------------------
(* CreationHandler.create: common properties, summary, the whole call *)

SolidOf(style) == [type |-> "SOLID", color |-> style.color]

\* revisions whose common block assigns width and height directly
AssignsSize(rev) == rev \in {"image", "full"}
\* revisions whose common block skips the fill of an image
SkipsImageFill(rev) == rev \in {"image", "full"}

ApplyPosition(n, p) ==
  [n EXCEPT !.x = IF Defined(p.x) THEN Val(p.x) ELSE @,
            !.y = IF Defined(p.y) THEN Val(p.y) ELSE @]

ApplySize(n, p) ==
  [n EXCEPT !.width = IF Defined(p.width) THEN p.width ELSE @,
            !.height = IF Defined(p.height) THEN p.height ELSE @]

\* mutant: the fill is applied to an image as to any other type
ApplyFillAnyType(rev, type, n, p) ==
  IF Defined(p.fill) THEN [n EXCEPT !.fills = <<SolidOf(Val(p.fill))>>] ELSE n

\* if (type !== 'image' && properties.fill) node.fills = [{type:'SOLID', color}]
ApplyFill(rev, type, n, p) ==
  IF (SkipsImageFill(rev) => type # "image") /\ Defined(p.fill)
  THEN [n EXCEPT !.fills = <<SolidOf(Val(p.fill))>>] ELSE n

ApplyStroke(n, p) ==
  LET n1 == IF Defined(p.stroke)
            THEN [n EXCEPT !.strokes = <<SolidOf(Val(p.stroke))>>] ELSE n
  IN IF Defined(p.strokeWeight)
     THEN [n1 EXCEPT !.strokeWeight = p.strokeWeight] ELSE n1

ApplyCommon(rev, type, n, p) ==
  LET n1 == ApplyPosition(n, p)
      n2 == IF AssignsSize(rev) THEN ApplySize(n1, p) ELSE n1
  IN ApplyStroke(ApplyFill(rev, type, n2, p), p)

\* the JSON the call returns; a key whose value is undefined is left out
Summary(n, scaleMode) ==
  [id |-> n.id, type |-> n.type, x |-> n.x, y |-> n.y,
   width |-> n.width, height |-> n.height, scaleMode |-> scaleMode]

\* scaleMode: type === 'image' ? properties.image?.scaleMode : undefined
SummaryScaleMode(rev, type, p) ==
  IF rev = "image" /\ type = "image" /\ Defined(p.image)
  THEN Val(p.image).scaleMode ELSE None

Outcome(store, imgs, err, summary, b) ==
  [nodes |-> store, images |-> imgs, error |-> err, summary |-> summary,
   constructed |-> b.constructed, fetches |-> b.fetches,
   registrations |-> b.registrations, points |-> b.points]

create(rev, store, imgs, type, p, env) ==
  LET id == Len(store) + 1
      b == KindBlock(rev, id, imgs, type, p, env)
  IN IF b.err # <<>>
     THEN Outcome(IF Defined(b.node) THEN Append(store, Val(b.node)) ELSE store,
                  imgs + b.images, b.err, None, b)
     ELSE LET n == ApplyCommon(rev, type, Val(b.node), p)
          IN Outcome(Append(store, n), imgs + b.images, <<>>,
                     Some(Summary(n, SummaryScaleMode(rev, type, p))), b)

----------------------------------------------------------------------------
(* CreationHandler.modify and CreationHandler.read *)

NoCalls == [constructed |-> <<>>, fetches |-> 0, registrations |-> 0, points |-> None]
Calls(f, r) == [constructed |-> <<>>, fetches |-> f, registrations |-> r, points |-> None]

SetNode(store, n) == [store EXCEPT ![n.id] = n]

\* mutant: modify returns quietly when the node is missing
NotFoundQuiet(store, imgs, uri) == Outcome(store, imgs, <<>>, None, NoCalls)

\* if (!node) throw new Error(`Node not found: ${uri}`)
NotFound(store, imgs, uri) ==
  Outcome(store, imgs, <<"Node not found: ", ToString(uri)>>, None, NoCalls)

\* node.fills[0]?.scaleMode
FirstFillScaleMode(n) ==
  IF Len(n.fills) > 0 /\ n.fills[1].type = "IMAGE"
  THEN Some(n.fills[1].scaleMode) ELSE None

\* properties.image.scaleMode || node.fills[0]?.scaleMode || 'FILL'
ModifyScaleMode(n, image) ==
  IF TruthyStr(image.scaleMode) THEN Val(image.scaleMode)
  ELSE IF TruthyStr(FirstFillScaleMode(n)) THEN Val(FirstFillScaleMode(n))
  ELSE "FILL"

\* creation.ts:152-165: the writes of modify once the paint is built
ModifyImageApplied(n, image, paint) ==
  LET m1 == ApplyImageExtras([n EXCEPT !.fills = <<paint>>], image)
  IN IF Defined(image.cropSettings) /\ image.scaleMode = Some("CROP")
     THEN ApplyCropEdges(m1, Val(image.cropSettings))
     ELSE m1

\* creation.ts:171-183: width, height, x, y
ModifyImagePlaced(n, p) == ApplyPosition(ApplySize(n, p), p)

\* mutant: a failed image update still applies width, height, x and y
modifyImagePlacesOnFailure(store, imgs, uri, p, env) ==
  LET found == getNodeById(store, uri)
  IN IF ~Defined(found)
     THEN NotFound(store, imgs, uri)
     ELSE LET n == Val(found)
              image == Val(p.image)
              load == loadImageRaw(image.source, env)
          IN IF Defined(p.image) /\ ~load.ok
             THEN Outcome(SetNode(store, ModifyImagePlaced(n, p)), imgs,
                          <<"Failed to update image: ">> \o load.err,
                          None, Calls(load.fetches, 0))
             ELSE IF Defined(p.image) /\ env.fail = "register"
             THEN Outcome(SetNode(store, ModifyImagePlaced(n, p)), imgs,
                          <<"Failed to update image: ", "createImage failed">>,
                          None, Calls(load.fetches, 1))
             ELSE LET n1 == IF ~Defined(p.image) THEN n
                            ELSE ModifyImageApplied(
                                   n, image, ImagePaint(ModifyScaleMode(n, image), imgs + 1))
                  IN Outcome(SetNode(store, ModifyImagePlaced(n1, p)),
                             IF Defined(p.image) THEN imgs + 1 ELSE imgs, <<>>, None,
                             IF Defined(p.image) THEN Calls(load.fetches, 1) ELSE NoCalls)

\* creation.ts:135-184
modifyImage(store, imgs, uri, p, env) ==
  LET found == getNodeById(store, uri)
  IN IF ~Defined(found)
     THEN NotFound(store, imgs, uri)
     ELSE LET n == Val(found)
              image == Val(p.image)
              load == loadImageRaw(image.source, env)
          IN IF Defined(p.image) /\ ~load.ok
             THEN Outcome(store, imgs, <<"Failed to update image: ">> \o load.err,
                          None, Calls(load.fetches, 0))
             ELSE IF Defined(p.image) /\ env.fail = "register"
             THEN Outcome(store, imgs, <<"Failed to update image: ", "createImage failed">>,
                          None, Calls(load.fetches, 1))
             ELSE LET n1 == IF ~Defined(p.image) THEN n
                            ELSE ModifyImageApplied(
                                   n, image, ImagePaint(ModifyScaleMode(n, image), imgs + 1))
                  IN Outcome(SetNode(store, ModifyImagePlaced(n1, p)),
                             IF Defined(p.image) THEN imgs + 1 ELSE imgs, <<>>, None,
                             IF Defined(p.image) THEN Calls(load.fetches, 1) ELSE NoCalls)

\* mutant: a modify without fill clears the fills
ModifyPaintClearing(n, p) ==
  [n EXCEPT !.fills = IF Defined(p.fill) THEN <<Val(p.fill)>> ELSE <<>>,
            !.strokes = IF Defined(p.stroke) THEN <<Val(p.stroke)>> ELSE @,
            !.strokeWeight = IF Defined(p.strokeWeight) THEN p.strokeWeight ELSE @]

\* if (properties.fill) node.fills = [properties.fill]; the same for stroke
\* and strokeWeight
ModifyPaint(n, p) ==
  [n EXCEPT !.fills = IF Defined(p.fill) THEN <<Val(p.fill)>> ELSE @,
            !.strokes = IF Defined(p.stroke) THEN <<Val(p.stroke)>> ELSE @,
            !.strokeWeight = IF Defined(p.strokeWeight) THEN p.strokeWeight ELSE @]

\* creation.ts:302-323 and 506-527
modifyBasic(store, imgs, uri, p) ==
  LET found == getNodeById(store, uri)
  IN IF ~Defined(found)
     THEN NotFound(store, imgs, uri)
     ELSE Outcome(SetNode(store, ApplySize(ModifyPaint(Val(found), p), p)),
                  imgs, <<>>, None, NoCalls)

\* part_005:241-255
modifyFull(store, imgs, uri, p) ==
  LET found == getNodeById(store, uri)
  IN IF ~Defined(found)
     THEN NotFound(store, imgs, uri)
     ELSE Outcome(SetNode(store, ModifyPaint(ApplySize(ApplyPosition(Val(found), p), p), p)),
                  imgs, <<>>, None, NoCalls)

modify(rev, store, imgs, uri, p, env) ==
  CASE rev = "image" -> modifyImage(store, imgs, uri, p, env)
    [] rev = "full" -> modifyFull(store, imgs, uri, p)
    [] OTHER -> modifyBasic(store, imgs, uri, p)

\* revisions whose modify loads the image of properties.image
LoadsOnModify(rev) == rev = "image"

\* revisions that define read
HasRead == {"line", "polygon", "full"}

\* part_005:53-71; creation.ts:298-300 and 502-504 return [] whatever the uri
read(rev, store, uri) ==
  IF rev # "full" THEN [error |-> <<>>, content |-> None]
  ELSE LET found == getNodeById(store, uri)
       IN IF ~Defined(found)
          THEN [error |-> <<"Node not found: ", ToString(uri)>>, content |-> None]
          ELSE [error |-> <<>>, content |-> Some(Summary(Val(found), None))]

----------------------------------------------------------------------------
(* The requests the model draws from *)

Opt(S) == {None} \cup {Some(v) : v \in S}

Red == Solid(1, 0, 0)
Blue == Solid(0, 0, 1)

ShapeTypes ==
  {"rectangle", "ellipse", "text", "line", "polygon", "star", "vector", "image",
   "unsupported"}

\* position and size
Placed(XS, YS, WS, HS) ==
  {[EmptyProps EXCEPT !.x = a, !.y = b, !.width = c, !.height = d] :
     a \in XS, b \in YS, c \in WS, d \in HS}

\* fill, stroke and stroke weight
Painted(P, FS, SS, KS) ==
  {[q EXCEPT !.fill = f, !.stroke = s, !.strokeWeight = k] :
     q \in P, f \in FS, s \in SS, k \in KS}

BoxProps ==
  Painted(Placed(Opt({5}), {None}, Opt({0, 30}), Opt({0, 40})), Opt({Red}), {None}, {None})
    \cup Painted(Placed({None, Some(5)}, {Some(6)}, {Some(30)}, {Some(40)}),
                 {None}, Opt({Blue}), Opt({0, 3}))

TextProps ==
  {[q EXCEPT !.text = t] :
     q \in Placed({None}, {None}, {None}, {None}) \cup Placed({Some(5)}, {Some(6)}, {Some(30)}, {None}),
     t \in Opt({"", "hi"})}

Lines ==
  {[start |-> Pt(0, 0), end |-> Pt(10, 10), strokeWeight |-> k] : k \in Opt({0, 2})}
    \cup {[start |-> Pt(10, 4), end |-> Pt(2, 8), strokeWeight |-> k] : k \in Opt({0, 2})}

LineProps ==
  {[q EXCEPT !.line = l] :
     q \in Painted({EmptyProps}, {None}, {None}, Opt({0, 3}))
             \cup Placed({Some(5)}, Opt({6}), {None}, {None}),
     l \in Opt(Lines)}

\* the i-th vertex of the explicit point lists
Vertex(i) == Pt((7 * i) % 11, (5 * i) % 13)

Polygon(points, sides, radius, rotation, cx, cy) ==
  [points |-> points, sides |-> sides, radius |-> radius, rotation |-> rotation,
   centerX |-> cx, centerY |-> cy]

\* explicit vertex lists of 1 to MaxPoints points (an empty list makes
\* Math.min() infinite and is left out), alone or beside a sides count
ExplicitPolygons ==
  {Polygon(Some([i \in 1..k |-> Vertex(i)]), s, None, None, None, None) :
     k \in 1..MaxPoints, s \in {None, Some(3)}}

ParametricPolygons ==
  {Polygon(None, s, r, None, None, None) : s \in Opt(0..MaxSides), r \in Opt({0, 10})}
    \cup {Polygon(None, Some(s), Some(10), rot, cx, None) :
            s \in 1..MaxSides, rot \in Opt({30}), cx \in Opt({20})}
    \cup {Polygon(None, Some(MaxSides), Some(10), Some(90), Some(20), Some(20))}

PolygonPlacings ==
  Placed(Opt({5}), Opt({6}), {None}, {None}) \cup Placed(Opt({5}), {None}, Opt({30}), Opt({40}))

PolygonProps ==
  {[EmptyProps EXCEPT !.polygon = g] : g \in Opt(ExplicitPolygons \cup ParametricPolygons)}
    \cup {[q EXCEPT !.polygon = Some(g)] :
            q \in PolygonPlacings,
            g \in {Polygon(Some([i \in 1..MaxPoints |-> Vertex(i)]), None, None, None, None, None),
                   Polygon(None, Some(MaxSides), Some(10), None, None, None)}}

Crop(t, l, b, r) == [top |-> t, left |-> l, bottom |-> b, right |-> r]

CropSettings ==
  {None, Some(Crop(Some(1), Some(2), Some(3), Some(4))),
   Some(Crop(Some(1), None, None, None)), Some(Crop(None, None, None, None))}

Image(source, scaleMode, opacity, rotation, crop) ==
  [source |-> source, scaleMode |-> scaleMode, opacity |-> opacity,
   rotation |-> rotation, cropSettings |-> crop]

Url == "https://example.com/image.jpg"

Images ==
  {Image(src, m, None, None, c) :
     src \in {"data:image/png;base64,QUJD", Url}, m \in Opt({"FILL", "CROP"}),
     c \in CropSettings}
    \cup {Image(Url, m, o, r, None) : m \in Opt({"FILL"}), o \in Opt({50}), r \in Opt({90})}
    \cup {Image("data:image/png;base64", None, None, None, None)}

ImageProps ==
  {[EmptyProps EXCEPT !.image = g] : g \in Opt(Images)}
    \cup {[q EXCEPT !.image = Some(Image(src, m, None, None, None))] :
            q \in Painted({EmptyProps}, {Some(Red)}, {None}, {None}),
            src \in {"data:image/png;base64,QUJD", Url}, m \in Opt({"FILL", "CROP"})}
    \cup {[q EXCEPT !.image = Some(Image(Url, Some("FILL"), None, None, None))] :
            q \in Placed(Opt({5}), {None}, Opt({0, 30}), Opt({40}))}

OtherProps ==
  {EmptyProps,
   [EmptyProps EXCEPT !.star = Some([points |-> 5, innerRadius |-> 4, outerRadius |-> 10])],
   [EmptyProps EXCEPT !.vector = Some([path |-> "M 0 0 L 10 10"])]}

PropsOf(type) ==
  CASE type \in {"rectangle", "ellipse"} -> BoxProps
    [] type = "text" -> TextProps
    [] type = "line" -> LineProps
    [] type = "polygon" -> PolygonProps
    [] type = "image" -> ImageProps
    [] OTHER -> OtherProps

\* the registration matters to a call that carries an image, the network to
\* one whose image source is fetched
EnvsOf(p) ==
  IF ~Defined(p.image) THEN {EnvOk}
  ELSE IF StartsWithDataImage(Val(p.image).source)
       THEN {e \in Envs : e.fail \in {"none", "register"}}
       ELSE Envs

ModifyProps ==
  Placed(Opt({5}), Opt({6}), Opt({0, 30}), {None})
    \cup Painted(Placed({None}, {None}, {None}, Opt({40})), Opt({Red}), Opt({Blue}), Opt({0, 3}))
    \cup {[q EXCEPT !.image = Some(g)] :
            q \in Placed({None}, {None}, {None}, {None}) \cup Placed({Some(5)}, {None}, {Some(30)}, {None}),
            g \in {Image(Url, m, o, None, c) :
                     m \in Opt({"CROP"}), o \in Opt({50}),
                     c \in {None, Some(Crop(Some(1), None, None, Some(4)))}}
                  \cup {Image("data:image/png;base64", None, None, None, None),
                        Image("data:image/png;base64,QUJD", Some("TILE"), None, Some(90), None)}}

\* references a caller may pass: the nodes of the document and one that no
\* document of the model holds
Refs == 1..(MaxCalls + 2)

----------------------------------------------------------------------------
(* The state machine *)

NoCall ==
  [op |-> "none", type |-> "", props |-> EmptyProps, uri |-> 0, env |-> EnvOk,
   error |-> <<>>, summary |-> None, constructed |-> <<>>, fetches |-> 0,
   registrations |-> 0, points |-> None, before |-> <<>>]

Call(op, type, p, uri, env, out, before) ==
  [op |-> op, type |-> type, props |-> p, uri |-> uri, env |-> env,
   error |-> out.error, summary |-> out.summary, constructed |-> out.constructed,
   fetches |-> out.fetches, registrations |-> out.registrations,
   points |-> out.points, before |-> before]

\* no server is running
WatchIdle ==
  /\ server = "" /\ remote = <<>> /\ watchedResources = <<>> /\ timers = <<>>
  /\ tasks = <<>> /\ sent = <<>> /\ nreq = 0

\* no /events endpoint is set up
SseIdle == endpoint = "" /\ connections = <<>> /\ transport = None

\* no call of the calculator is under way
CalcIdle == [args |-> PolygonArgs(0, 0, 0, 0, None), rotation |-> None,
             first |-> None, second |-> None]

\* an image carrier whose paint has scale mode FIT and whose left edge is
\* cropped by 7
CarrierNode ==
  [createRectangle(1) EXCEPT !.fills = <<ImagePaint("FIT", 1)>>,
                             !.constraintsLeft = Some(7)]

\* a rectangle as its constructor leaves it
PlainNode == createRectangle(2)

\* an empty document, and one that holds the carrier and a plain rectangle
InitialDocs ==
  {[nodes |-> <<>>, images |-> 0], [nodes |-> <<CarrierNode, PlainNode>>, images |-> 1]}

Init ==
  /\ handler \in Revisions
  /\ \E d \in InitialDocs : nodes = d.nodes /\ images = d.images
  /\ last = NoCall
  /\ ncalls = 0
  /\ calc = CalcIdle
  /\ procs = <<>> /\ registry = <<>>
  /\ WatchIdle
  /\ SseIdle

Create ==
  /\ ncalls < MaxCalls
  /\ \E type \in ShapeTypes : \E p \in PropsOf(type) : \E env \in EnvsOf(p) :
       LET out == create(handler, nodes, images, type, p, env)
       IN /\ nodes' = out.nodes
          /\ images' = out.images
          /\ last' = Call("create", type, p, 0, env, out, nodes)
  /\ ncalls' = ncalls + 1
  /\ UNCHANGED <<handler, aside>>

Modify ==
  /\ ncalls < MaxCalls
  /\ \E uri \in Refs : \E p \in ModifyProps : \E env \in EnvsOf(p) :
       LET out == modify(handler, nodes, images, uri, p, env)
       IN /\ nodes' = out.nodes
          /\ images' = out.images
          /\ last' = Call("modify", "", p, uri, env, out, nodes)
  /\ ncalls' = ncalls + 1
  /\ UNCHANGED <<handler, aside>>

Read ==
  /\ ncalls < MaxCalls
  /\ handler \in HasRead
  /\ \E uri \in Refs :
       LET r == read(handler, nodes, uri)
       IN last' = [NoCall EXCEPT !.op = "read", !.uri = uri, !.error = r.error,
                                 !.summary = r.content, !.before = nodes]
  /\ ncalls' = ncalls + 1
  /\ UNCHANGED <<handler, nodes, images, aside>>

Next == Create \/ Modify \/ Read

Spec == Init /\ [][Next]_vars

----------------------------------------------------------------------------
(* The regular-polygon calculator called on its own *)

CalcSides == 1..MaxCalcSides
CalcRadii == {0, 1, 10}
CalcCenters == {-7, 0, 20}
CalcRotations == Opt({0, 30, -90, 450})

\* a handler on an empty document, about to call the calculator twice with
\* the same arguments
InitCalc ==
  /\ handler \in {"polygon", "full"}
  /\ nodes = <<>> /\ images = 0 /\ last = NoCall /\ ncalls = 0
  /\ procs = <<>> /\ registry = <<>>
  /\ WatchIdle
  /\ SseIdle
  /\ \E cx \in CalcCenters, cy \in CalcCenters, r \in CalcRadii,
        n \in CalcSides, rot \in CalcRotations :
       calc = [args |-> PolygonArgs(cx, cy, r, n, rot), rotation |-> rot,
               first |-> None, second |-> None]

Calculate ==
  /\ ~Defined(calc.first)
  /\ calc' = [calc EXCEPT !.first =
                 Some(calculatePolygonPoints(calc.args.centerX, calc.args.centerY,
                                             calc.args.radius, calc.args.sides,
                                             calc.rotation))]
  /\ UNCHANGED <<handlerVars, concVars, watchVars, sseVars>>

CalculateAgain ==
  /\ Defined(calc.first) /\ ~Defined(calc.second)
  /\ calc' = [calc EXCEPT !.second =
                 Some(calculatePolygonPoints(calc.args.centerX, calc.args.centerY,
                                             calc.args.radius, calc.args.sides,
                                             calc.rotation))]
  /\ UNCHANGED <<handlerVars, concVars, watchVars, sseVars>>

NextCalc == Calculate \/ CalculateAgain

SpecCalc == InitCalc /\ [][NextCalc]_vars

----------------------------------------------------------------------------
(* Calls under way at the same time.  A call runs from one await to the    *)
(* next without interruption; it is suspended at `await loadImage(...)'    *)
(* and at `await this.figma.createImage(...)'.                             *)

\* a call and where it stands: "ready", "loading", "registering", "done"
Proc(op, type, p, uri, env) ==
  [op |-> op, type |-> type, props |-> p, uri |-> uri, env |-> env,
   pc |-> "ready", node |-> 0, bytes |-> <<>>, scaleMode |-> "", error |-> <<>>]

\* the call reaches an await: a create that gets into the image case, a
\* modify of the revision that reloads the image
Suspends(rev, store, c) ==
  \/ /\ c.op = "create" /\ c.type = "image" /\ "image" \in Cases(rev)
     /\ Defined(c.props.image)
  \/ /\ c.op = "modify" /\ LoadsOnModify(rev) /\ Defined(c.props.image)
     /\ Defined(getNodeById(store, c.uri))

\* the image bag of a suspended call
ImageOf(c) == Val(c.props.image)

\* the prefix the catch around the awaits puts before the caught message
CatchPrefix(rev, c) ==
  IF c.op = "create" THEN ImageCatchPrefix(rev) ELSE "Failed to update image: "

\* the references the callers hold: the node of the document, and one that
\* names nothing
ConcRefs == {1, 0}

ConcImages ==
  {Image(Url, m, None, None, None) : m \in Opt({"CROP"})}
    \cup {Image("data:image/png;base64,QUJD", Some("TILE"), Some(50), None, None)}

ConcCalls ==
  {Proc("create", "image", [q EXCEPT !.image = Some(g)], 0, e) :
     q \in Placed(Opt({7}), {None}, {None}, {None}),
     g \in {Image(Url, Some("FILL"), None, None, None)},
     e \in {EnvOk, [fail |-> "fetch"], [fail |-> "register"]}}
    \cup {Proc("create", "rectangle", q, 0, EnvOk) :
            q \in Placed({None}, {None}, {Some(30)}, {Some(40)})}
    \cup {Proc("modify", "", [EmptyProps EXCEPT !.image = Some(g)], u, EnvOk) :
            g \in ConcImages, u \in ConcRefs}
    \cup {Proc("modify", "", q, 1, EnvOk) :
            q \in Placed({Some(5)}, {None}, {Some(30)}, {None})}

\* the bytes registered under the handle of the document's image
CarrierBytes == <<71, 73, 70>>

\* the document the calls start on
ConcStart == [nodes |-> <<CarrierNode>>, images |-> 1, registry |-> <<CarrierBytes>>]

InitConc ==
  /\ handler \in Revisions
  /\ nodes = ConcStart.nodes /\ images = ConcStart.images
  /\ registry = ConcStart.registry
  /\ procs \in [1..MaxProcs -> ConcCalls]
  /\ last = NoCall /\ ncalls = 0 /\ calc = CalcIdle
  /\ WatchIdle
  /\ SseIdle

\* the call starts and runs to its first await, or to its end when it has none
Begin(i) ==
  LET c == procs[i]
  IN /\ c.pc = "ready"
     /\ IF Suspends(handler, nodes, c)
        THEN /\ IF c.op = "create"
                THEN /\ nodes' = Append(nodes, createRectangle(Len(nodes) + 1))
                     /\ procs' = [procs EXCEPT ![i].pc = "loading",
                                               ![i].node = Len(nodes) + 1]
                ELSE /\ nodes' = nodes
                     /\ procs' = [procs EXCEPT ![i].pc = "loading", ![i].node = c.uri]
             /\ UNCHANGED <<images, registry>>
        ELSE LET out == IF c.op = "create"
                        THEN create(handler, nodes, images, c.type, c.props, c.env)
                        ELSE modify(handler, nodes, images, c.uri, c.props, c.env)
             IN /\ nodes' = out.nodes
                /\ images' = out.images
                /\ procs' = [procs EXCEPT ![i].pc = "done", ![i].error = out.error]
                /\ UNCHANGED registry
     /\ UNCHANGED <<handler, last, ncalls, calcVars, watchVars, sseVars>>

\* loadImage settles: the call fails, or builds the paint up to the await of
\* createImage (type and scaleMode are evaluated before that await)
AfterLoad(i) ==
  LET c == procs[i]
      load == loadImageOf(handler, ImageOf(c).source, c.env)
  IN /\ c.pc = "loading"
     /\ procs' =
          IF ~load.ok
          THEN [procs EXCEPT ![i].pc = "done",
                             ![i].error = <<CatchPrefix(handler, c)>> \o load.err]
          ELSE [procs EXCEPT ![i].pc = "registering",
                             ![i].bytes = load.bytes,
                             ![i].scaleMode =
                                IF c.op = "create" THEN CreateScaleMode(ImageOf(c))
                                ELSE ModifyScaleMode(nodes[c.node], ImageOf(c))]
     /\ UNCHANGED <<handler, nodes, images, registry, last, ncalls, calcVars, watchVars, sseVars>>

\* createImage settles: the call fails, or assigns the paint and runs to its end
AfterRegister(i) ==
  LET c == procs[i]
      paint == ImagePaint(c.scaleMode, images + 1)
  IN /\ c.pc = "registering"
     /\ IF c.env.fail = "register"
        THEN /\ procs' = [procs EXCEPT ![i].pc = "done",
                                       ![i].error = <<CatchPrefix(handler, c), "createImage failed">>]
             /\ UNCHANGED <<nodes, images, registry>>
        ELSE /\ images' = images + 1
             /\ registry' = Append(registry, c.bytes)
             /\ nodes' =
                  SetNode(nodes,
                          IF c.op = "create"
                          THEN ApplyCommon(handler, "image",
                                           CreateImageApplied(nodes[c.node], ImageOf(c), paint),
                                           c.props)
                          ELSE ModifyImagePlaced(
                                 ModifyImageApplied(nodes[c.node], ImageOf(c), paint),
                                 c.props))
             /\ procs' = [procs EXCEPT ![i].pc = "done"]
     /\ UNCHANGED <<handler, last, ncalls, calcVars, watchVars, sseVars>>

NextConc ==
  \E i \in 1..MaxProcs : Begin(i) \/ AfterLoad(i) \/ AfterRegister(i)

SpecConc == InitConc /\ [][NextConc]_vars

----------------------------------------------------------------------------
(* FigmaAPIServer: watching files.  Three revisions of the handlers:       *)
(*   "notify"    src/src/index.ts:333-392 (watch, subscribe, unsubscribe)  *)
(*   "watch"     src/src/index.ts:734-797 (watch, subscribe, unsubscribe)  *)
(*   "subscribe" src/unnamed/part_004:214-262 (subscribe, unsubscribe)     *)
(* A handler or a timer callback runs from one await to the next without   *)
(* interruption; `tasks' holds the ones suspended at an await.             *)

Servers == {"notify", "watch", "subscribe"}
\* the revisions whose watch handler takes a list of resources and sets one
\* timer over all the entries of the map
ListServers == {"notify", "watch"}
Files == {"fileA", "fileB"}
\* lastModified values the design service may report, in the order of time
Versions == 0..MaxVersion

\* Map<string, { lastModified }>: the entries in insertion order; a deleted
\* entry keeps its place, emptied, so that an iterator under way skips it
Entry(id, lm) == [id |-> id, lastModified |-> lm, live |-> TRUE]
MapHas(m, k) == \E i \in 1..Len(m) : m[i].live /\ m[i].id = k
MapIndex(m, k) == CHOOSE i \in 1..Len(m) : m[i].live /\ m[i].id = k
MapGet(m, k) == IF MapHas(m, k) THEN Some(m[MapIndex(m, k)].lastModified) ELSE None
MapSet(m, k, lm) ==
  IF MapHas(m, k) THEN [m EXCEPT ![MapIndex(m, k)].lastModified = lm]
  ELSE Append(m, Entry(k, lm))
MapDelete(m, k) ==
  [i \in 1..Len(m) |-> IF m[i].id = k THEN [m[i] EXCEPT !.live = FALSE] ELSE m[i]]
\* the entry an iterator standing at pos yields next, 0 when it is done
MapNext(m, pos) ==
  IF \E i \in (pos + 1)..Len(m) : m[i].live
  THEN SetMin({i \in (pos + 1)..Len(m) : m[i].live})
  ELSE 0

RECURSIVE DeleteAll(_, _, _)
\* resources.forEach(resource => this.watchedResources.delete(resource.id))
DeleteAll(m, rs, i) ==
  IF i > Len(rs) THEN m ELSE DeleteAll(MapDelete(m, rs[i]), rs, i + 1)

RemoveAt(seq, i) == SubSeq(seq, 1, i - 1) \o SubSeq(seq, i + 1, Len(seq))

\* a suspended handler or timer callback
Task(kind, rs, i, pos, file, data, resp, pc) ==
  [kind |-> kind, resources |-> rs, i |-> i, pos |-> pos, file |-> file,
   data |-> data, resp |-> resp, pc |-> pc]

\* the watch handler standing at resources[i], awaiting makeAPIRequest
WatchTask(rs, i) == Task("watch", rs, i, 0, rs[i], 0, 0, "fetching")
\* the subscribe handler awaiting makeAPIRequest
SubscribeTask(f) == Task("subscribe", <<f>>, 1, 0, f, 0, 0, "fetching")
\* a timer callback of index.ts standing at entry pos, which it destructured
\* into [id, data], awaiting makeAPIRequest
PollOver(m, pos) ==
  Task("poll", <<>>, 0, pos, m[pos].id, m[pos].lastModified, 0, "fetching")
\* a timer callback of part_004 awaiting makeAPIRequest
PollOf(f) == Task("poll", <<>>, 0, 0, f, 0, 0, "fetching")

Polls == {t \in 1..Len(tasks) : tasks[t].kind = "poll"}

\* the places of the suspended handlers and callbacks
TaskIds == 1..(MaxRequests + MaxPolls)

\* the first resource from index i on that the map does not hold, 0 when none
FirstUnwatched(m, rs, i) ==
  IF \E j \in i..Len(rs) : ~MapHas(m, rs[j])
  THEN SetMin({j \in i..Len(rs) : ~MapHas(m, rs[j])})
  ELSE 0

\* the resource lists of the requests
ResourceLists == {<<"fileA">>, <<"fileB">>, <<"fileA", "fileB">>}

\* what a timer polls: every watched file (index.ts), or its own file (part_004)
TimerKeys == {"all"} \cup Files

\* response.lastModified !== data.lastModified
Changed(response, recorded) == response # recorded

InitWatch ==
  /\ server \in Servers
  /\ remote = [f \in Files |-> 0]
  /\ watchedResources = <<>> /\ timers = <<>> /\ tasks = <<>>
  /\ sent = [f \in Files |-> [v \in Versions |-> 0]]
  /\ nreq = 0
  /\ handler = "full" /\ nodes = <<>> /\ images = 0 /\ last = NoCall /\ ncalls = 0
  /\ calc = CalcIdle /\ procs = <<>> /\ registry = <<>>
  /\ SseIdle

\* the design service takes a modification of the file
RemoteChange(f) ==
  /\ remote[f] < MaxVersion
  /\ remote' = [remote EXCEPT ![f] = @ + 1]
  /\ UNCHANGED <<server, watchedResources, timers, tasks, sent, nreq>>
  /\ UNCHANGED <<handlerVars, calcVars, concVars, sseVars>>

\* index.ts:333-377 and 734-782 up to the first await, or to the end when
\* every resource is watched already
WatchRequest(rs) ==
  /\ server \in ListServers /\ nreq < MaxRequests
  /\ nreq' = nreq + 1
  /\ LET j == FirstUnwatched(watchedResources, rs, 1)
     IN IF j = 0
        THEN timers' = Append(timers, "all") /\ UNCHANGED tasks
        ELSE tasks' = Append(tasks, WatchTask(rs, j)) /\ UNCHANGED timers
  /\ UNCHANGED <<server, remote, watchedResources, sent>>
  /\ UNCHANGED <<handlerVars, calcVars, concVars, sseVars>>

\* the watch handler after its await, to the next await or to setInterval
WatchResume(t, map) ==
  LET j == FirstUnwatched(map, tasks[t].resources, tasks[t].i + 1)
  IN /\ watchedResources' = map
     /\ IF j = 0
        THEN timers' = Append(timers, "all") /\ tasks' = RemoveAt(tasks, t)
        ELSE /\ tasks' = [tasks EXCEPT ![t] = WatchTask(tasks[t].resources, j)]
             /\ UNCHANGED timers

WatchFetchOk(t) ==
  /\ t <= Len(tasks)
  /\ tasks[t].kind = "watch"
  /\ WatchResume(t, MapSet(watchedResources, tasks[t].file, remote[tasks[t].file]))
  /\ UNCHANGED <<server, remote, sent, nreq>>
  /\ UNCHANGED <<handlerVars, calcVars, concVars, sseVars>>

\* catch (error) { console.error(...) }
WatchFetchFail(t) ==
  /\ t <= Len(tasks)
  /\ tasks[t].kind = "watch"
  /\ WatchResume(t, watchedResources)
  /\ UNCHANGED <<server, remote, sent, nreq>>
  /\ UNCHANGED <<handlerVars, calcVars, concVars, sseVars>>

\* index.ts:380-383 and 784-787 return ok; part_004:214-254 up to its await
SubscribeRequest(f) ==
  /\ nreq < MaxRequests
  /\ nreq' = nreq + 1
  /\ tasks' = IF server = "subscribe" /\ ~MapHas(watchedResources, f)
              THEN Append(tasks, SubscribeTask(f)) ELSE tasks
  /\ UNCHANGED <<server, remote, watchedResources, timers, sent>>
  /\ UNCHANGED <<handlerVars, calcVars, concVars, sseVars>>

SubscribeFetchOk(t) ==
  /\ t <= Len(tasks)
  /\ tasks[t].kind = "subscribe"
  /\ watchedResources' = MapSet(watchedResources, tasks[t].file, remote[tasks[t].file])
  /\ timers' = Append(timers, tasks[t].file)
  /\ tasks' = RemoveAt(tasks, t)
  /\ UNCHANGED <<server, remote, sent, nreq>>
  /\ UNCHANGED <<handlerVars, calcVars, concVars, sseVars>>

\* catch (error) { ...; throw error; }
SubscribeFetchFail(t) ==
  /\ t <= Len(tasks)
  /\ tasks[t].kind = "subscribe"
  /\ tasks' = RemoveAt(tasks, t)
  /\ UNCHANGED <<server, remote, watchedResources, timers, sent, nreq>>
  /\ UNCHANGED <<handlerVars, calcVars, concVars, sseVars>>

\* index.ts:386-392 and 790-796; part_004:257-262 with the one file of the uri
Unsubscribe(rs) ==
  /\ nreq < MaxRequests
  /\ server = "subscribe" => Len(rs) = 1
  /\ nreq' = nreq + 1
  /\ watchedResources' = DeleteAll(watchedResources, rs, 1)
  /\ UNCHANGED <<server, remote, timers, tasks, sent>>
  /\ UNCHANGED <<handlerVars, calcVars, concVars, sseVars>>

\* a timer of key k fires: its callback runs to its first await
Tick(k) ==
  /\ \E i \in 1..Len(timers) : timers[i] = k
  /\ Cardinality(Polls) < MaxPolls
  /\ IF k = "all"
     THEN LET first == MapNext(watchedResources, 0)
          IN tasks' = IF first = 0 THEN tasks
                      ELSE Append(tasks, PollOver(watchedResources, first))
     ELSE tasks' = Append(tasks, PollOf(k))
  /\ UNCHANGED <<server, remote, watchedResources, timers, sent, nreq>>
  /\ UNCHANGED <<handlerVars, calcVars, concVars, sseVars>>

\* the timer callback goes on after one file: the for-of loop of index.ts
\* takes the next entry of the map, the callback of part_004 returns
PollAdvance(t, map) ==
  LET nxt == IF server \in ListServers THEN MapNext(map, tasks[t].pos) ELSE 0
  IN tasks' = IF nxt = 0 THEN RemoveAt(tasks, t)
              ELSE [tasks EXCEPT ![t] = PollOver(map, nxt)]

\* the value the callback compares the response with: index.ts the data of
\* the entry as the loop took it, part_004 the entry as it is now
Recorded(t) ==
  IF server \in ListServers THEN Some(tasks[t].data)
  ELSE MapGet(watchedResources, tasks[t].file)

\* the poll's request is answered.  index.ts:353-368 calls server.notify and
\* records the response at once; the other revisions await the notification
PollFetchOk(t) ==
  /\ t <= Len(tasks)
  /\ tasks[t].kind = "poll" /\ tasks[t].pc = "fetching"
  /\ LET response == remote[tasks[t].file]
     IN IF Defined(Recorded(t)) /\ Changed(response, Val(Recorded(t)))
        THEN IF server = "notify"
             THEN /\ sent' = [sent EXCEPT ![tasks[t].file][response] = Min2(@ + 1, 2)]
                  /\ watchedResources' = MapSet(watchedResources, tasks[t].file, response)
                  /\ PollAdvance(t, watchedResources')
             ELSE /\ tasks' = [tasks EXCEPT ![t].pc = "notifying", ![t].resp = response]
                  /\ UNCHANGED <<watchedResources, sent>>
        ELSE PollAdvance(t, watchedResources) /\ UNCHANGED <<watchedResources, sent>>
  /\ UNCHANGED <<server, remote, timers, nreq>>
  /\ UNCHANGED <<handlerVars, calcVars, concVars, sseVars>>

PollFetchFail(t) ==
  /\ t <= Len(tasks)
  /\ tasks[t].kind = "poll" /\ tasks[t].pc = "fetching"
  /\ PollAdvance(t, watchedResources)
  /\ UNCHANGED <<server, remote, watchedResources, timers, sent, nreq>>
  /\ UNCHANGED <<handlerVars, calcVars, concVars, sseVars>>

\* await this.server.notification(...) resolves: the map takes the response
PollNotifyOk(t) ==
  /\ t <= Len(tasks)
  /\ tasks[t].kind = "poll" /\ tasks[t].pc = "notifying"
  /\ sent' = [sent EXCEPT ![tasks[t].file][tasks[t].resp] = Min2(@ + 1, 2)]
  /\ watchedResources' = MapSet(watchedResources, tasks[t].file, tasks[t].resp)
  /\ PollAdvance(t, watchedResources')
  /\ UNCHANGED <<server, remote, timers, nreq>>
  /\ UNCHANGED <<handlerVars, calcVars, concVars, sseVars>>

\* await this.server.notification(...) rejects: caught and logged
PollNotifyFail(t) ==
  /\ t <= Len(tasks)
  /\ tasks[t].kind = "poll" /\ tasks[t].pc = "notifying"
  /\ PollAdvance(t, watchedResources)
  /\ UNCHANGED <<server, remote, watchedResources, timers, sent, nreq>>
  /\ UNCHANGED <<handlerVars, calcVars, concVars, sseVars>>

NextWatch ==
  \/ \E f \in Files : RemoteChange(f) \/ SubscribeRequest(f)
  \/ \E rs \in ResourceLists : WatchRequest(rs) \/ Unsubscribe(rs)
  \/ \E k \in TimerKeys : Tick(k)
  \/ \E t \in TaskIds :
       \/ WatchFetchOk(t) \/ WatchFetchFail(t)
       \/ SubscribeFetchOk(t) \/ SubscribeFetchFail(t)
       \/ PollFetchOk(t) \/ PollFetchFail(t)
       \/ PollNotifyOk(t) \/ PollNotifyFail(t)

\* a poll of file f gets its answer; a notification about f goes out
FetchAnswered(f) ==
  \E t \in TaskIds : t <= Len(tasks) /\ tasks[t].file = f /\ PollFetchOk(t)
NotificationOut(f) ==
  \E t \in TaskIds : t <= Len(tasks) /\ tasks[t].file = f /\ PollNotifyOk(t)

\* the request the watch handler awaits is answered or refused
HandlerSettles ==
  \E t \in TaskIds : WatchFetchOk(t) \/ WatchFetchFail(t)

\* a request a handler awaits settles; setInterval fires every timer again
\* and again; polls succeed and the transport delivers again and again
FairWatch ==
  /\ WF_vars(HandlerSettles)
  /\ \A k \in TimerKeys : SF_vars(Tick(k))
  /\ \A f \in Files : SF_vars(FetchAnswered(f)) /\ SF_vars(NotificationOut(f))

SpecWatch == InitWatch /\ [][NextWatch]_vars /\ FairWatch

----------------------------------------------------------------------------
(* FigmaAPIServer: the SSE endpoint GET /events.  Three revisions, named   *)
(* after the field that holds the transport:                               *)
(*   "server.transport"  src/src/index.ts:248-274                          *)
(*   "currentTransport"  src/src/index.ts:630-668                          *)
(*   "this.transport"    src/unnamed/part_003:78-150                       *)
(* The route handler has no await: it runs to its end in one step, and so  *)
(* does each event listener.                                               *)

Endpoints == {"server.transport", "currentTransport", "this.transport"}
\* the connections clients may open, each "none", "open", "errored" (its
\* request emitted 'error' and has not closed yet) or "closed"
Connections == 1..MaxConnections

InitSse ==
  /\ endpoint \in Endpoints
  /\ connections = [c \in Connections |-> "none"]
  /\ transport = None
  /\ handler = "full" /\ nodes = <<>> /\ images = 0 /\ last = NoCall /\ ncalls = 0
  /\ calc = CalcIdle /\ procs = <<>> /\ registry = <<>>
  /\ WatchIdle

\* a client opens /events: the handler builds a transport on the response,
\* stores it and registers the listeners of the request
Connect(c) ==
  /\ connections[c] = "none"
  /\ connections' = [connections EXCEPT ![c] = "open"]
  /\ transport' = Some(c)
  /\ UNCHANGED <<endpoint, handlerVars, calcVars, concVars, watchVars>>

\* building the transport throws: catch (error) { ...; res.end(); } before
\* the transport is stored and before any listener is registered
ConnectFail(c) ==
  /\ connections[c] = "none"
  /\ connections' = [connections EXCEPT ![c] = "closed"]
  /\ UNCHANGED <<endpoint, transport, handlerVars, calcVars, concVars, watchVars>>

\* req.on('close', () => { ...; transport = undefined; })
Disconnect(c) ==
  /\ connections[c] \in {"open", "errored"}
  /\ connections' = [connections EXCEPT ![c] = "closed"]
  /\ transport' = None
  /\ UNCHANGED <<endpoint, handlerVars, calcVars, concVars, watchVars>>

\* req.on('error', (error) => { ...; this.transport = undefined; })
ConnectionError(c) ==
  /\ endpoint = "this.transport"
  /\ connections[c] = "open"
  /\ connections' = [connections EXCEPT ![c] = "errored"]
  /\ transport' = None
  /\ UNCHANGED <<endpoint, handlerVars, calcVars, concVars, watchVars>>

NextSse ==
  \E c \in Connections :
     Connect(c) \/ ConnectFail(c) \/ Disconnect(c) \/ ConnectionError(c)

SpecSse == InitSse /\ [][NextSse]_vars

----------------------------------------------------------------------------
(* Vocabulary of the properties *)

Created == last.op = "create"
Modified == last.op = "modify"
Failed == last.error # <<>>
Succeeded == last.error = <<>>
\* the last create had a case for its type in the constructed revision
Dispatched == Created /\ last.type \in Cases(handler)
\* the node the last create constructed (when it constructed one)
CreatedNode == nodes[Len(last.before) + 1]
Contains(msg, piece) == \E i \in 1..Len(msg) : msg[i] = piece
ResizeRecorded(n, w, h) == \E i \in 1..Len(n.resizeCalls) : n.resizeCalls[i] = <<w, h>>

\* the bytes of the image cannot be obtained: the fetch is rejected, the body
\* cannot be read, or the embedded payload does not decode
BytesFail(image, env) ==
  \/ image.source \in UrlSources /\ env.fail \in {"fetch", "body"}
  \/ image.source = "data:image/png;base64"

\* the message of the underlying failure
Cause(image, env) ==
  IF image.source \in UrlSources
  THEN IF env.fail = "fetch" THEN <<"Network error">> ELSE <<"body stream error">>
  ELSE <<"The string to be decoded is not correctly encoded.">>

\* msg holds the piece and, right after it and up to its end, the cause
FollowedBy(msg, piece, cause) ==
  \E i \in 1..Len(msg) : msg[i] = piece /\ SubSeq(msg, i + 1, Len(msg)) = cause

----------------------------------------------------------------------------
(* C1 *)

\* C1: a create whose type has no case in the switch fails with "Unsupported
\* shape type", calls no primitive constructor and leaves the document as it was.
C1_UnsupportedTypeFails ==
  (Created /\ last.type \notin Cases(handler)) =>
     /\ last.error = <<"Unsupported shape type: ", last.type>>
     /\ last.constructed = <<>>
     /\ nodes = last.before

C1_Witness ==
  /\ Created /\ last.type = "unsupported"
  /\ Contains(last.error, "Unsupported shape type: ")
  /\ nodes = last.before

----------------------------------------------------------------------------
(* C2 *)

RequiredMessages ==
  {<<"Line properties are required for line creation">>,
   <<"Polygon properties are required for polygon creation">>,
   <<"Image properties are required for image creation">>,
   <<"Either points or sides+radius must be provided for polygon creation">>}

\* the request lacks what its kind requires
LacksRequired(type, p) ==
  \/ type = "line" /\ ~Defined(p.line)
  \/ type = "polygon" /\ ~Defined(p.polygon)
  \/ type = "image" /\ ~Defined(p.image)
  \/ /\ type = "polygon" /\ Defined(p.polygon)
     /\ ~Defined(Val(p.polygon).points)
     /\ ~(Defined(Val(p.polygon).sides) /\ Defined(Val(p.polygon).radius))

\* C2: a line, polygon or image create without its sub-bag, and a polygon
\* create with neither points nor sides and radius, fails with a
\* required-property error (a line: "Line properties are required...") before
\* any node is constructed.
C2_MissingRequiredFails ==
  (Dispatched /\ LacksRequired(last.type, last.props)) =>
     /\ last.error \in RequiredMessages
     /\ (last.type = "line" =>
           last.error = <<"Line properties are required for line creation">>)
     /\ last.constructed = <<>>
     /\ nodes = last.before

C2_Witness ==
  /\ Dispatched /\ last.type = "polygon" /\ Defined(last.props.polygon)
  /\ LacksRequired(last.type, last.props)
  /\ last.error = <<"Either points or sides+radius must be provided for polygon creation">>
  /\ last.constructed = <<>>

----------------------------------------------------------------------------
(* C3 *)

\* C3: creating a rectangle or an ellipse with width W and height H records a
\* resize call with exactly the arguments (W, H).
C3_ResizeRecorded ==
  (/\ Dispatched /\ Succeeded /\ last.type \in {"rectangle", "ellipse"}
   /\ Defined(last.props.width) /\ Defined(last.props.height)) =>
     ResizeRecorded(CreatedNode, Val(last.props.width), Val(last.props.height))

----------------------------------------------------------------------------
(* C4 *)

BoundingBoxOf(n, points) ==
  /\ n.x = SetMin(Xs(points))
  /\ n.y = SetMin(Ys(points))
  /\ n.width = Some(SetMax(Xs(points)) - SetMin(Xs(points)))
  /\ n.height = Some(SetMax(Ys(points)) - SetMin(Ys(points)))

PolygonCreated == Dispatched /\ Succeeded /\ last.type = "polygon"

\* C4 as stated: after every successful polygon create the node's x, y, width
\* and height are the bounding box of the vertices used, whatever else the
\* request carries.
C4_BoundingBoxAlways ==
  PolygonCreated => BoundingBoxOf(CreatedNode, Val(last.points))

NoPlacement(p) ==
  ~Defined(p.x) /\ ~Defined(p.y) /\ ~Defined(p.width) /\ ~Defined(p.height)

\* C4 amended: after a successful polygon create whose request carries none of
\* x, y, width and height, the node's x, y, width and height are the bounding
\* box of the vertices used.
C4_BoundingBoxUnplaced ==
  (PolygonCreated /\ NoPlacement(last.props)) =>
     BoundingBoxOf(CreatedNode, Val(last.points))

C4_Witness ==
  /\ PolygonCreated /\ NoPlacement(last.props)
  /\ Len(Val(last.points)) >= 3
  /\ CreatedNode.x # Val(last.points)[1].x
  /\ BoundingBoxOf(CreatedNode, Val(last.points))

----------------------------------------------------------------------------
(* C5 *)

\* C5: a line created with line.strokeWeight = w and no generic strokeWeight
\* has exactly one vector path and strokeWeight w, for every w, 0 included.
C5_LineStrokeWeight ==
  (/\ Dispatched /\ Succeeded /\ last.type = "line"
   /\ Defined(Val(last.props.line).strokeWeight)
   /\ ~Defined(last.props.strokeWeight)) =>
     /\ Len(CreatedNode.vectorPaths) = 1
     /\ CreatedNode.strokeWeight = Val(last.props.line).strokeWeight

----------------------------------------------------------------------------
(* C6 *)

ImageAttempted == Dispatched /\ last.type = "image" /\ Defined(last.props.image)

\* C6: when the bytes of the image cannot be obtained, an image create fails
\* with a message that holds "Failed to load image" followed by the message of
\* the underlying failure, and never with the underlying error itself.
C6_ImageLoadFailure ==
  (ImageAttempted /\ BytesFail(Val(last.props.image), last.env)) =>
     /\ Failed
     /\ FollowedBy(last.error, "Failed to load image: ",
                   Cause(Val(last.props.image), last.env))
     /\ last.error # Cause(Val(last.props.image), last.env)

C6_Witness ==
  /\ ImageAttempted /\ last.env.fail = "fetch"
  /\ Val(last.props.image).source \in UrlSources
  /\ FollowedBy(last.error, "Failed to load image: ", <<"Network error">>)

----------------------------------------------------------------------------
(* C7 *)

\* C7: a create that ends in an error leaves the document's nodes as they
\* were: no node was constructed.
C7_FailedCreateLeavesNoNode ==
  (Created /\ Failed) => (nodes = last.before /\ last.constructed = <<>>)

----------------------------------------------------------------------------
(* C8 *)

\* C8: after a successful image create the node's fills is exactly one IMAGE
\* paint carrying the reference createImage returned, with or without
\* properties.fill.
C8_ImagePaintIsSoleFill ==
  (ImageAttempted /\ Succeeded) =>
     /\ Len(CreatedNode.fills) = 1
     /\ CreatedNode.fills[1].type = "IMAGE"
     /\ CreatedNode.fills[1].imageHash = images
     /\ last.registrations = 1

C8_Witness ==
  /\ ImageAttempted /\ Succeeded /\ Defined(last.props.fill)
  /\ CreatedNode.fills[1].type = "IMAGE"

----------------------------------------------------------------------------
(* C9 *)

\* C9: a failing image load during create is never reported as "Failed to
\* update image", and a failing image load during modify always is, wrapping
\* the underlying cause.
C9_DistinctImageErrors ==
  /\ (Created /\ Failed) => ~Contains(last.error, "Failed to update image: ")
  /\ (/\ Modified /\ LoadsOnModify(handler) /\ Defined(last.props.image)
      /\ Defined(getNodeById(last.before, last.uri))
      /\ BytesFail(Val(last.props.image), last.env)) =>
        last.error = <<"Failed to update image: ">> \o Cause(Val(last.props.image), last.env)

----------------------------------------------------------------------------
(* C10 *)

\* C10: every polygon path is synthesized from at least 3 vertices: a vertex
\* list of fewer than 3 points never reaches path synthesis.
C10_AtLeastThreeVertices ==
  (Dispatched /\ last.type = "polygon" /\ Defined(last.points)) =>
     Len(Val(last.points)) >= 3

----------------------------------------------------------------------------
(* C11 *)

\* data is a move to the first vertex, a line to each later vertex in order,
\* and then a close exactly when closed
PathOver(data, vertices, closed) ==
  /\ Len(data) = Len(vertices) + (IF closed THEN 1 ELSE 0)
  /\ data[1] = [op |-> "M", x |-> vertices[1].x, y |-> vertices[1].y]
  /\ \A i \in 2..Len(vertices) :
       data[i] = [op |-> "L", x |-> vertices[i].x, y |-> vertices[i].y]
  /\ closed => data[Len(data)].op = "Z"

\* the vertices a successful line or polygon create draws its path through
VerticesOf(call) ==
  IF call.type = "line"
  THEN <<Val(call.props.line).start, Val(call.props.line).end>>
  ELSE Val(call.points)

PathCreated == Dispatched /\ Succeeded /\ last.type \in {"line", "polygon"}

----------------------------------------------------------------------------
(* C12 *)

\* C12: a star create carrying properties.star and a vector create carrying
\* properties.vector succeed and construct a node; neither fails with
\* "Unsupported shape type".
C12_StarAndVectorAccepted ==
  (/\ Created
   /\ \/ last.type = "star" /\ Defined(last.props.star)
      \/ last.type = "vector" /\ Defined(last.props.vector)) =>
     /\ Succeeded
     /\ ~Contains(last.error, "Unsupported shape type: ")
     /\ Len(nodes) = Len(last.before) + 1

----------------------------------------------------------------------------
(* C13 *)

\* the reference of the last call names no node of the document it ran on
Unresolved == last.uri \notin 1..Len(last.before)

\* C13: a modify on a reference the design API cannot resolve fails with
\* "Node not found", changes no field of any node, and starts no image fetch
\* and no image registration.
C13_ModifyUnresolved ==
  (Modified /\ Unresolved) =>
     /\ last.error = <<"Node not found: ", ToString(last.uri)>>
     /\ nodes = last.before
     /\ last.fetches = 0
     /\ last.registrations = 0

C13_Witness ==
  /\ Modified /\ Unresolved /\ handler = "image"
  /\ Len(last.before) > 0
  /\ Defined(last.props.image) /\ Val(last.props.image).source \in UrlSources
  /\ Contains(last.error, "Node not found: ")
  /\ nodes = last.before

----------------------------------------------------------------------------
(* C14 *)

WasRead == last.op = "read"

\* C14: read returns the current id, type, x, y, width and height of the
\* referenced node, and fails with "Node not found" when the reference cannot
\* be resolved.
C14_ReadReturnsFields ==
  WasRead =>
     IF Unresolved
     THEN last.error = <<"Node not found: ", ToString(last.uri)>>
     ELSE /\ Succeeded
          /\ Defined(last.summary)
          /\ LET n == nodes[last.uri]
                 c == Val(last.summary)
             IN /\ c.id = n.id /\ c.type = n.type
                /\ c.x = n.x /\ c.y = n.y
                /\ c.width = n.width /\ c.height = n.height

----------------------------------------------------------------------------
(* C15 *)

\* every generic property the request p supplies is what the node n holds
GenericApplied(n, p) ==
  /\ Defined(p.x) => n.x = Val(p.x)
  /\ Defined(p.y) => n.y = Val(p.y)
  /\ Defined(p.width) => n.width = p.width
  /\ Defined(p.height) => n.height = p.height
  /\ Defined(p.fill) => n.fills = <<Val(p.fill)>>
  /\ Defined(p.stroke) => n.strokes = <<Val(p.stroke)>>
  /\ Defined(p.strokeWeight) => n.strokeWeight = p.strokeWeight

\* C15: after a successful modify, each of x, y, width, height, fill, stroke
\* and strokeWeight that the request supplied has been applied to the
\* referenced node, fill and stroke as one-element lists.
C15_ModifyAppliesAll ==
  (Modified /\ Succeeded) => GenericApplied(nodes[last.uri], last.props)

----------------------------------------------------------------------------
(* C16 *)

\* the scale mode the claim expects: the supplied one, else the one of the
\* first fill the node had before the call, else FILL
ExpectedScaleMode(image, before) ==
  IF Defined(image.scaleMode) THEN Val(image.scaleMode)
  ELSE IF Len(before.fills) > 0 /\ before.fills[1].type = "IMAGE"
       THEN before.fills[1].scaleMode
       ELSE "FILL"

\* C16: a successful modify that carries properties.image has loaded and
\* registered the image, and the node's fills is one IMAGE paint whose scale
\* mode is the supplied one, or otherwise the one of the node's previous first
\* fill (FILL when it had none).
C16_ModifyImageScaleMode ==
  (Modified /\ Succeeded /\ Defined(last.props.image)) =>
     LET n == nodes[last.uri]
     IN /\ last.registrations = 1
        /\ Len(n.fills) = 1
        /\ n.fills[1].type = "IMAGE"
        /\ \A i \in 1..Len(last.before[last.uri].fills) :
             n.fills[1] # last.before[last.uri].fills[i]
        /\ n.fills[1].scaleMode =
             ExpectedScaleMode(Val(last.props.image), last.before[last.uri])

----------------------------------------------------------------------------
(* C17 *)

\* C17: the summary of a successful image create reports the scale mode of
\* the image paint assigned to the node, also when the request gave none and
\* the paint took the default FILL.
C17_SummaryScaleMode ==
  (ImageAttempted /\ Succeeded) =>
     Val(last.summary).scaleMode = Some(CreatedNode.fills[1].scaleMode)

----------------------------------------------------------------------------
(* C20 *)

----------------------------------------------------------------------------
(* C18 *)

AllDone == procs # <<>> /\ \A i \in 1..Len(procs) : procs[i].pc = "done"

\* the call c run from its first statement to its last with nothing in between
SerialStep(st, c) ==
  LET out == IF c.op = "create"
             THEN create(handler, st.nodes, st.images, c.type, c.props, c.env)
             ELSE modify(handler, st.nodes, st.images, c.uri, c.props, c.env)
  IN [nodes |-> out.nodes, images |-> out.images,
      registry |-> IF out.images > st.images
                   THEN Append(st.registry,
                               loadImageRaw(Val(c.props.image).source, c.env).bytes)
                   ELSE st.registry]

RECURSIVE SerialRun(_, _, _)
SerialRun(order, k, st) ==
  IF k > Len(order) THEN st
  ELSE SerialRun(order, k + 1, SerialStep(st, procs[order[k]]))

Orders ==
  {o \in [1..Len(procs) -> 1..Len(procs)] :
     \A i, j \in 1..Len(procs) : o[i] = o[j] => i = j}

\* a node with each image handle replaced by the bytes registered under it
Resolved(n, reg) ==
  [n EXCEPT !.fills =
     [k \in 1..Len(n.fills) |->
        IF n.fills[k].type = "IMAGE"
        THEN [type |-> "IMAGE", scaleMode |-> n.fills[k].scaleMode,
              bytes |-> reg[n.fills[k].imageHash]]
        ELSE n.fills[k]]]

ResolvedStore(store, reg) == [k \in 1..Len(store) |-> Resolved(store[k], reg)]

\* the documents the serial executions of the calls end in
SerialDocuments ==
  {LET st == SerialRun(o, 1, ConcStart) IN ResolvedStore(st.nodes, st.registry) :
     o \in Orders}

Serialisable == AllDone => ResolvedStore(nodes, registry) \in SerialDocuments

\* a step of call i leaves every node but its own as it was
OwnNodeOnly(i) ==
  \A k \in 1..Len(nodes) :
     nodes'[k] # nodes[k] =>
        k = (IF procs'[i].node # 0 THEN procs'[i].node ELSE procs[i].uri)

StepOf(i) == procs'[i] # procs[i]

\* C18: whatever the interleaving of concurrent create and modify calls, the
\* document they end in is one that some serial execution of the same calls
\* ends in, and no step of a call changes a node other than the one the call
\* created or was given by reference.
C18_Serialisable ==
  /\ [](Serialisable)
  /\ [][\A i \in 1..Len(procs) : StepOf(i) => OwnNodeOnly(i)]_vars

----------------------------------------------------------------------------
(* C19 *)

Watched(f) == MapHas(watchedResources, f)

\* the design service reports v for file f and the map holds another value
Stale(f, v) ==
  Watched(f) /\ remote[f] = v /\ MapGet(watchedResources, f) # Some(v)

\* C19: when a watched file's lastModified at the design service differs from
\* the recorded one, then, unless the file leaves the watched set, a change
\* notification carrying the new value is eventually sent (timers keep firing,
\* handlers settle, a poll's fetch and its notification eventually succeed).
C19_ChangeNotified ==
  \A f \in Files : \A v \in Versions :
     Stale(f, v) ~> (~Watched(f) \/ sent[f][v] > 0)

C19_Witness ==
  \E f \in Files :
     /\ Watched(f) /\ remote[f] = 1
     /\ MapGet(watchedResources, f) = Some(1)
     /\ sent[f][1] = 1

----------------------------------------------------------------------------
(* C21 *)

\* the node and the summary carry the supplied width and height
SizeAsSupplied(n, summary, p) ==
  /\ Defined(p.width) => (n.width = p.width /\ summary.width = p.width)
  /\ Defined(p.height) => (n.height = p.height /\ summary.height = p.height)

\* C21: after a successful create of any kind with width and/or height
\* supplied (0 included), the node's final width and height, and those of the
\* returned summary, are the supplied values.
C21_SizeAssignedLast ==
  (Dispatched /\ Succeeded) =>
     SizeAsSupplied(CreatedNode, Val(last.summary), last.props)

----------------------------------------------------------------------------
(* C22 *)

\* the edge each crop-offset field of a node takes its value from
CropEdgeOf ==
  [constraintsTop |-> "top", constraintsLeft |-> "left",
   constraintsBottom |-> "bottom", constraintsRight |-> "right"]
CropFields == DOMAIN CropEdgeOf

\* the request asks for a crop: scale mode CROP and cropSettings present
CropRequested(p) ==
  /\ Defined(p.image)
  /\ Val(p.image).scaleMode = Some("CROP")
  /\ Defined(Val(p.image).cropSettings)

\* every crop offset of n that differs from old's was supplied by a request
\* that asks for a crop, and holds the supplied value
CropOnlyAsSupplied(old, n, p) ==
  \A f \in CropFields :
     n[f] # old[f] =>
        /\ CropRequested(p)
        /\ Defined(Val(Val(p.image).cropSettings)[CropEdgeOf[f]])
        /\ n[f] = Val(Val(p.image).cropSettings)[CropEdgeOf[f]]

\* a create of an image that constructed its node
ImageNodeCreated ==
  Dispatched /\ last.type = "image" /\ Len(nodes) > Len(last.before)

\* a modify whose reference resolves
ModifiedNode == Modified /\ last.uri \in 1..Len(last.before)

\* C22: on image create and on modify, a crop offset is written only when the
\* request's scale mode is CROP and cropSettings is present, and only for the
\* edges supplied; every other crop offset keeps its value.
C22_CropOnlyAsSupplied ==
  /\ ImageNodeCreated =>
       CropOnlyAsSupplied(createRectangle(CreatedNode.id), CreatedNode, last.props)
  /\ ModifiedNode =>
       CropOnlyAsSupplied(last.before[last.uri], nodes[last.uri], last.props)

C22_Witness ==
  /\ ModifiedNode /\ Succeeded /\ CropRequested(last.props)
  /\ Val(Val(last.props.image).cropSettings) = Crop(Some(1), None, None, Some(4))
  /\ nodes[last.uri].constraintsTop = Some(1)
  /\ nodes[last.uri].constraintsLeft = Some(7)
  /\ nodes[last.uri].constraintsRight = Some(4)

----------------------------------------------------------------------------
(* C23 *)

\* the last call ran loadImage on the source of its image
LoadPerformed ==
  /\ Defined(last.props.image)
  /\ \/ Dispatched /\ last.type = "image"
     \/ ModifiedNode /\ LoadsOnModify(handler)

\* C23: an image load fetches nothing when the source starts with
\* 'data:image' and exactly once otherwise, whether the fetch succeeds or
\* fails; no call makes more than one fetch or more than one createImage
\* registration.
C23_OneFetchNoRetry ==
  /\ LoadPerformed =>
       last.fetches =
         (IF StartsWithDataImage(Val(last.props.image).source) THEN 0 ELSE 1)
  /\ last.fetches <= 1
  /\ last.registrations <= 1

C23_Witness ==
  /\ LoadPerformed /\ Failed
  /\ Val(last.props.image).source \in UrlSources
  /\ last.env.fail = "fetch"
  /\ last.fetches = 1 /\ last.registrations = 0

----------------------------------------------------------------------------
(* C24 *)

\* the last modify failed while loading or registering its image
ImageUpdateFailed ==
  ModifiedNode /\ LoadPerformed /\ Contains(last.error, "Failed to update image: ")

\* C24: when modify fails because the image cannot be loaded or registered,
\* the referenced node is as it was before the call: no paint, opacity,
\* rotation or crop offset is written and the x, y, width and height of the
\* same call are not applied.
C24_FailedModifyLeavesNode ==
  ImageUpdateFailed => nodes[last.uri] = last.before[last.uri]

C24_Witness ==
  /\ ImageUpdateFailed /\ last.env.fail = "register"
  /\ last.props.x = Some(5) /\ last.props.width = Some(30)
  /\ Val(last.props.image).opacity = Some(50)
  /\ last.registrations = 1
  /\ nodes[last.uri] = CarrierNode

----------------------------------------------------------------------------
(* C25 *)

\* the image sub-bag of the request supplies the field
ImageSupplies(p, field) ==
  Defined(p.image) /\ Defined(Val(p.image)[field])

\* the request's crop settings supply the edge
CropSupplies(p, edge) ==
  ImageSupplies(p, "cropSettings") /\ Defined(Val(Val(p.image).cropSettings)[edge])

\* every field of n whose property the request lacks has old's value
OnlyNamedChanged(old, n, p) ==
  /\ ~Defined(p.x) => n.x = old.x
  /\ ~Defined(p.y) => n.y = old.y
  /\ ~Defined(p.width) => n.width = old.width
  /\ ~Defined(p.height) => n.height = old.height
  /\ (~Defined(p.fill) /\ ~Defined(p.image)) => n.fills = old.fills
  /\ ~Defined(p.stroke) => n.strokes = old.strokes
  /\ ~Defined(p.strokeWeight) => n.strokeWeight = old.strokeWeight
  /\ ~ImageSupplies(p, "opacity") => n.opacity = old.opacity
  /\ ~ImageSupplies(p, "rotation") => n.rotation = old.rotation
  /\ \A f \in CropFields : ~CropSupplies(p, CropEdgeOf[f]) => n[f] = old[f]

\* C25: modify changes only what the supplied properties name: x, y, width,
\* height, fills, strokes, strokeWeight, opacity, rotation and the crop
\* offsets of the referenced node keep their values when their property is
\* absent from the call, and every other node of the document is as it was.
C25_ModifyFrame ==
  ModifiedNode =>
     /\ OnlyNamedChanged(last.before[last.uri], nodes[last.uri], last.props)
     /\ Len(nodes) = Len(last.before)
     /\ \A i \in 1..Len(nodes) : i # last.uri => nodes[i] = last.before[i]

C25_Witness ==
  /\ ModifiedNode /\ Succeeded /\ last.uri = 2
  /\ last.props.width = Some(30) /\ ~Defined(last.props.x)
  /\ nodes[2] = [PlainNode EXCEPT !.width = Some(30)]
  /\ nodes[1] = CarrierNode

----------------------------------------------------------------------------
(* C26 *)

\* the step is a watch or subscribe handler recording file f
HandlerAdds(f) ==
  \E t \in TaskIds :
     /\ t <= Len(tasks) /\ tasks[t].file = f
     /\ WatchFetchOk(t) \/ SubscribeFetchOk(t)

\* C26: a file that is not in the watched set (it was never watched, or an
\* unsubscribe for it has completed) gets no change notification and comes
\* back into the watched set only by a watch or subscribe handler, also when
\* a poll of the file was awaiting the design service during the unsubscribe.
C26_UnsubscribedStaysOut ==
  [][\A f \in Files :
        ~Watched(f) => /\ sent'[f] = sent[f]
                       /\ Watched(f)' => HandlerAdds(f)]_vars

----------------------------------------------------------------------------
(* C27 *)

\* C27: no value of a file's lastModified is notified more than once,
\* however many watch or subscribe requests were served and however many
\* timers they started.
C27_NotifiedOnce ==
  \A f \in Files : \A v \in Versions : sent[f][v] <= 1

----------------------------------------------------------------------------
(* C28 *)

\* the step is poll t getting its answer and going on to notify
NotifyDecided(t) ==
  /\ PollFetchOk(t)
  /\ \/ sent' # sent
     \/ Len(tasks') = Len(tasks) /\ tasks'[t].pc = "notifying"

\* the step completes a notification about file f carrying value v
NotifyCompleted(f, v) == sent'[f][v] # sent[f][v]

\* C28: a poll goes on to notify only when the lastModified it just fetched
\* differs from the value the map records for the file; when the notification
\* is out, the map records the fetched value; a poll whose fetch fails sends
\* nothing and leaves the map as it is.
C28_NotifyOnlyOnDifference ==
  [][/\ \A t \in TaskIds :
          /\ NotifyDecided(t) =>
               MapGet(watchedResources, tasks[t].file) # Some(remote[tasks[t].file])
          /\ PollFetchFail(t) => UNCHANGED <<sent, watchedResources>>
     /\ \A f \in Files : \A v \in Versions :
          NotifyCompleted(f, v) => MapGet(watchedResources, f)' = Some(v)]_vars

----------------------------------------------------------------------------
(* C29 *)

Connected(c) == connections[c] = "open"

\* C29: while some SSE client is connected, the transport the server holds
\* is defined and is that of a client that is still connected.
C29_TransportOfConnectedClient ==
  (\E c \in Connections : Connected(c)) =>
     Defined(transport) /\ Connected(Val(transport))

----------------------------------------------------------------------------
(* C30 *)

\* a line was created from a request whose line sub-bag carries a stroke weight
LineWithWeightCreated ==
  /\ Dispatched /\ Succeeded /\ last.type = "line"
  /\ Defined(Val(last.props.line).strokeWeight)

\* C30: a line created with line.strokeWeight and the generic strokeWeight
\* ends with the generic one; created with line.strokeWeight alone it ends
\* with the line's.
C30_GenericStrokeWeightLast ==
  LineWithWeightCreated =>
     CreatedNode.strokeWeight =
       (IF Defined(last.props.strokeWeight) THEN last.props.strokeWeight
        ELSE Val(last.props.line).strokeWeight)

====
